---------------------------- MODULE Spec2Model ----------------------------
(***************************************************************************)
(* Delivery-reliability core of the IronNotify Rust SDK: the offline queue *)
(* (src/src/queue.rs), the send path and the flush path of NotifyClient    *)
(* (src/src/client.rs), with the transport (src/src/transport.rs) as a     *)
(* nondeterministic collaborator and the queue file as a variable.         *)
(*                                                                         *)
(* Option<T> is modelled as a sequence: None is <<>>, Some(x) is <<x>>.    *)
(***************************************************************************)
EXTENDS Integers, Sequences, FiniteSets, TLC

(***************************************************************************)
(* Bounds of the model.                                                    *)
(***************************************************************************)
\* largest max_offline_queue_size an instance is configured with
MaxSize == 2
\* calls (send_payload, flush) a single caller starts over a whole run
MaxCalls == 4
\* calls two concurrent callers start, together, over a whole run
MaxConcurrentCalls == 3
\* process restarts (a new client constructed against the same queue file)
MaxRestarts == 1
\* operations two threads start, together, on a queue they call directly
MaxQueueCalls == 4
\* calls one caller makes on the client's public face, construction included
MaxApiCalls == 4
\* calls one caller makes on the functions of lib.rs, init included
MaxGlobalCalls == 4
\* calls two callers start, together, before the transport recovers
MaxRecoveryCalls == 2

Tasks == {"t1", "t2"}

MaxSizes == 0..MaxSize

None == <<>>
Some(x) == <<x>>

(***************************************************************************)
(* types.rs: SeverityLevel, NotificationPayload, SendResult                *)
(***************************************************************************)
SeverityLevel == {"Info", "Success", "Warning", "Error", "Critical"}

\* #[serde(rename_all = "lowercase")] on SeverityLevel
SeverityToJson(s) ==
    CASE s = "Info" -> "info"
      [] s = "Success" -> "success"
      [] s = "Warning" -> "warning"
      [] s = "Error" -> "error"
      [] s = "Critical" -> "critical"

SeverityJsonNames == {SeverityToJson(s) : s \in SeverityLevel}

SeverityFromJson(j) == CHOOSE s \in SeverityLevel : SeverityToJson(s) = j

\* NotificationPayload::new(event_type, title): severity Some(Info), the rest None
NewPayload(event_type, title) ==
    [event_type |-> event_type, title |-> title,
     message |-> None, severity |-> Some("Info")]

\* The payloads callers send.  The optional fields of the struct all follow the
\* same Option / skip_serializing_if pattern; message and severity stand for them.
PA == NewPayload("order.created", "A")
PB == [NewPayload("payment.failed", "B") EXCEPT !.message = Some("declined"),
                                                 !.severity = Some("Error")]
PC == [NewPayload("order.created", "C") EXCEPT !.severity = None]

Payloads == {PA, PB, PC}

\* SendResult::success
SendResultSuccess(notification_id) ==
    [success |-> TRUE, notification_id |-> notification_id,
     error |-> None, queued |-> FALSE]

\* SendResult::failure
SendResultFailure(error) ==
    [success |-> FALSE, notification_id |-> None,
     error |-> Some(error), queued |-> FALSE]

QueuedGeneric(error) ==
    [success |-> FALSE, notification_id |-> None,
     error |-> Some("queued"), queued |-> TRUE]

\* SendResult::queued
SendResultQueued(error) ==
    [success |-> FALSE, notification_id |-> None,
     error |-> Some(error), queued |-> TRUE]

\* Option<String>::unwrap_or_default
UnwrapOrDefault(o) == IF o = None THEN "" ELSE o[1]

(***************************************************************************)
(* transport.rs: the outcomes of Transport::send and Transport::is_online  *)
(***************************************************************************)
\* send: 2xx with or without a parsable notificationId, a non-2xx status with or
\* without an error body, or a request error
TransportSend ==
    {SendResultSuccess(Some("n1")), SendResultSuccess(None),
     SendResultFailure("rate limited"), SendResultFailure("HTTP 500")}

\* is_online: GET /health answered 2xx, or anything else
TransportIsOnline == BOOLEAN

\* a transport that posts a second time before it answers
AttemptTwice(n) == n + 2

\* send, lines 54-60: one call of Transport::send is one POST; n counts the
\* POSTs of the caller so far
Attempt(n) == n + 1

(***************************************************************************)
(* The queue file: serde_json image of Vec<NotificationPayload>            *)
(***************************************************************************)
EmptyObject == [k \in {} |-> ""]

\* Serialize for NotificationPayload: camelCase keys, None fields skipped
PayloadToJson(p) ==
    [eventType |-> p.event_type, title |-> p.title]
      @@ (IF p.message = None THEN EmptyObject ELSE [message |-> p.message[1]])
      @@ (IF p.severity = None THEN EmptyObject
          ELSE [severity |-> SeverityToJson(p.severity[1])])

\* Deserialize for NotificationPayload succeeds: the two required keys are
\* present and severity, when present, names a variant
PayloadParses(o) ==
    /\ {"eventType", "title"} \subseteq DOMAIN o
    /\ ("severity" \in DOMAIN o => o.severity \in SeverityJsonNames)

\* Deserialize that gives a missing severity the default variant
PayloadFromJsonDefaulting(o) ==
    [event_type |-> o.eventType, title |-> o.title,
     message |-> IF "message" \in DOMAIN o THEN Some(o.message) ELSE None,
     severity |-> IF "severity" \in DOMAIN o
                  THEN Some(SeverityFromJson(o.severity)) ELSE Some("Info")]

\* Deserialize for NotificationPayload: a missing Option field is None
PayloadFromJson(o) ==
    [event_type |-> o.eventType, title |-> o.title,
     message |-> IF "message" \in DOMAIN o THEN Some(o.message) ELSE None,
     severity |-> IF "severity" \in DOMAIN o
                  THEN Some(SeverityFromJson(o.severity)) ELSE None]

\* the file's states: absent, present but unreadable, present and not JSON
\* (also a truncated write), or a JSON array of objects
FileMissing == [kind |-> "missing", items |-> <<>>]
FileUnreadable == [kind |-> "unreadable", items |-> <<>>]
FileGarbage == [kind |-> "garbage", items |-> <<>>]
FileArray(items) == [kind |-> "array", items |-> items]

\* serde_json::to_string(&*queue)
ToJsonString(q) == FileArray([i \in 1..Len(q) |-> PayloadToJson(q[i])])

\* an object of the wrong shape: no title
BadObject == [eventType |-> "order.created"]

\* what the first instance of a run may find: no file, an unreadable one, or
\* what another program or a crash left there
InitialFiles ==
    {FileMissing, FileUnreadable, FileGarbage,
     FileArray(<<>>), FileArray(<<PayloadToJson(PA), BadObject>>)}

\* the same, and the file an earlier instance left after queueing one payload
ConcurrentInitialFiles == InitialFiles \cup {FileArray(<<PayloadToJson(PB)>>)}

(***************************************************************************)
(* queue.rs: the pure parts of OfflineQueue                                *)
(***************************************************************************)
\* load that skips the objects it cannot parse
LoadLenient(file) ==
    IF file.kind = "array"
    THEN LET good == SelectSeq(file.items, PayloadParses)
         IN [i \in 1..Len(good) |-> PayloadFromJson(good[i])]
    ELSE <<>>

\* load_from_storage: read_to_string and from_str must both be Ok for the
\* in-memory Vec to be replaced; otherwise it stays Vec::new().  max_size is
\* not consulted.
LoadFromStorage(file) ==
    IF /\ file.kind = "array"
       /\ \A i \in 1..Len(file.items) : PayloadParses(file.items[i])
    THEN [i \in 1..Len(file.items) |-> PayloadFromJson(file.items[i])]
    ELSE <<>>

\* add, line 39: the capacity test
AddEvicts(q, m) == Len(q) >= m

\* add, line 40: Vec::remove(0) panics on an empty Vec
AddPanics(q, m) == AddEvicts(q, m) /\ Len(q) = 0

\* add that evicts the newest element at capacity
AddEvictsNewest(q, p, m) ==
    IF Len(q) >= m /\ Len(q) > 0
    THEN Append(SubSeq(q, 1, Len(q) - 1), p) ELSE Append(q, p)

\* add that pushes without evicting
AddNeverEvicts(q, p, m) == Append(q, p)

\* add, lines 39-53: evict index 0 at capacity, then push
AddMutate(q, p, m) ==
    IF AddEvicts(q, m) THEN Append(Tail(q), p) ELSE Append(q, p)

\* remove, line 66: the bounds test (index is 0-based)
RemoveInBounds(q, index) == index < Len(q)

\* remove that leaves the Vec as it is
RemoveNothing(q, index) == q

\* remove that takes the oldest element instead of the one at index
RemoveOldest(q, index) == IF index < Len(q) THEN Tail(q) ELSE q

\* remove, lines 66-67: Vec::remove(index) when in bounds
RemoveMutate(q, index) ==
    IF RemoveInBounds(q, index)
    THEN [j \in 1..(Len(q) - 1) |-> IF j <= index THEN q[j] ELSE q[j + 1]]
    ELSE q

\* a copy that lists the newest element first
CloneNewestFirst(q) == [j \in 1..Len(q) |-> q[Len(q) + 1 - j]]

\* get_all, line 60: Vec::clone, element by element in order
Clone(q) == [j \in 1..Len(q) |-> q[j]]

\* save_to_storage, line 102: what fs::write leaves in the file.  A failure
\* (swallowed) leaves the old file or a truncated one.
WriteOutcomes(file, json) == {json, file, FileGarbage}

\* a save that unwinds its caller when the write failed
SaveUnwindsOnFailure(f, json) == f = json

\* save_to_storage, line 102: `let _ = fs::write(..)` discards the io::Result,
\* so the save returns to its caller whatever the write left in the file
SaveReturns(f, json) == TRUE

(***************************************************************************)
(* client.rs: the branches of send_payload and flush                       *)
(***************************************************************************)
\* send_payload that queues every failure, configured or not
EnqueueEveryFailure(r, configured) == ~r.success

\* send_payload that queues whenever a queue is configured
EnqueueAlways(r, configured) == configured

\* send_payload, lines 89-90: the failed result is queued
ShouldEnqueue(r, configured) == ~r.success /\ configured

\* send_payload, line 93
QueuedFor(r) == SendResultQueued(UnwrapOrDefault(r.error))

\* flush that returns at once only when no queue is configured
NothingWithoutQueue(configured, q) == ~configured

\* flush, lines 159-162: no queue is configured, or queue.is_empty()
NothingToFlush(configured, q) == ~configured \/ q = <<>>

\* flush that sweeps whatever the probe says
ProbeIgnored(reachable) == TRUE

\* flush, line 164: the probe lets the sweep start
ProbeAllows(reachable) == reachable

\* flush, line 171: enumerate().rev() starts at the newest element
SweepFirst(n) == n - 1

\* flush, line 171: the index after i, while there is one
SweepNext(i) == i - 1

\* a sweep that goes on after a failed send
SweepNeverBreaks(r) == TRUE

\* a sweep that stops one element short of the oldest
SweepStopsEarly(i) == i <= 1

\* flush, line 171: i was the last index of enumerate().rev()
SweepDone(i) == i = 0

\* flush, lines 173-177: remove on success, break on failure
SweepContinues(r) == r.success

(***************************************************************************)
(* State                                                                   *)
(***************************************************************************)
VARIABLES
    max_size,   \* OfflineQueue.max_size of the running instance
    has_queue,  \* NotifyClient.queue is Some
    queue,      \* OfflineQueue.queue, oldest first
    storage,    \* the file at storage_path
    is_online,  \* NotifyClient.is_online
    task,       \* each task's call in progress: its position and its locals
    last,       \* the call that returned most recently, and what it returned
    added,      \* payloads added since an empty construction, while only add acted
    only_adds,  \* the queue was constructed empty and only add has acted on it
    writes_ok,  \* every fs::write of this instance succeeded
    pristine,   \* no call was started on this instance
    prev,       \* right after a restart: Some(the earlier instance's final queue)
    budget,     \* calls that may still be started in the run
    restarts,   \* restarts in the run
    client,     \* what NotifyClient::new has constructed or returned so far
    connection_state,  \* NotifyClient.connection_state
    builder,    \* the EventBuilder the call started most recently was made from
    GLOBAL_CLIENT,  \* lib.rs: the OnceCell, None while empty
    inits       \* the keys lib.rs init was called with so far, in order

config == <<max_size, has_queue>>
shared == <<queue, storage, is_online>>
history == <<added, only_adds, writes_ok, pristine, prev>>
counters == <<budget, restarts>>
facade == <<client, connection_state, builder, GLOBAL_CLIENT, inits>>
vars == <<config, shared, task, last, history, counters, facade>>

NoResult == [success |-> FALSE, notification_id |-> None,
             error |-> None, queued |-> FALSE]

\* A task between calls.  Of a call in progress:
\*   pc             where it stands
\*   payload        send_payload's argument
\*   result         send_payload: the answer of transport.send
\*   notifications  flush's snapshot
\*   idx            flush's loop index i
\*   json           save_to_storage's serialized string
\*   sent           what flush handed to transport.send so far: the snapshot
\*                  index and whether the answer was a success, in order
\*   probed         the probe's answer, once asked
\*   len_before     the queue's length when the call's add took the lock
\*   clean          no other call has enqueued or cleared is_online during it
\*   no_failure     the transport has answered no send with a failure during it
\*   attempts       send_payload: the POSTs the call has caused so far
\*   alone          no other task has taken a step during it
IdleTask ==
    [pc |-> "idle", payload |-> PA, result |-> NoResult, notifications |-> <<>>,
     idx |-> 0, json |-> FileMissing, sent |-> <<>>, probed |-> None,
     len_before |-> 0, clean |-> TRUE, no_failure |-> TRUE, attempts |-> 0,
     alone |-> TRUE]

\* What the call that returned most recently left behind:
\*   op        "send_payload" or "flush"
\*   panicked  the call unwound instead of returning
\*   value     send_payload: the SendResult returned
\*   answer    send_payload: the transport's answer
\*   before    send_payload: the queue's length when its add took the lock
\*   probed    flush: the probe's answer, if it was asked
\*   n, k      flush: the snapshot's length and the number of successful sends
\*   attempts  the POSTs the call caused
NoCall ==
    [op |-> "none", panicked |-> FALSE, value |-> NoResult, answer |-> NoResult,
     before |-> 0, probed |-> None, n |-> 0, k |-> 0, attempts |-> 0]

\* types.rs: ConnectionState
ConnectionState == {"Disconnected", "Connecting", "Connected", "Reconnecting"}

\* no client: NotifyClient::new has not been called
NoClient ==
    [constructed |-> FALSE, transport |-> FALSE, error |-> None, api_key |-> ""]

\* NotifyClient::new was called with api_key and returned Err(error)
Refused(api_key, error) ==
    [NoClient EXCEPT !.error = Some(error), !.api_key = api_key]

\* NotifyClient::new was called with api_key and returned Ok: the transport
\* and the client exist
Ready(api_key) ==
    [constructed |-> TRUE, transport |-> TRUE, error |-> None,
     api_key |-> api_key]

ReadyClient == Ready("sk_live")

\* enable_offline_queue and max_offline_queue_size of the options
Configs == {<<TRUE, m>> : m \in MaxSizes} \cup {<<FALSE, MaxSize>>}

Idle(t) == task[t].pc = "idle"
AllIdle == \A t \in Tasks : Idle(t)

(***************************************************************************)
(* OfflineQueue.queue is a parking_lot Mutex.  A step on the queue takes   *)
(* and releases it within the step, with two exceptions.  In               *)
(* save_to_storage the guard taken at line 101 is a temporary of the       *)
(* if-let scrutinee and lives to the end of the if-let, so fs::write (line *)
(* 102) runs with the Mutex held.  And add is also modelled lock by lock,  *)
(* below, with the guard held from line 37 to line 54.                     *)
(***************************************************************************)
\* task t stands between a lock() and the drop of its guard
HoldsLock(t) == task[t].pc \in {"sp_write", "fl_write", "add_locked", "add_push"}

\* a Mutex that excludes nobody
LockNeverWaits(t) == TRUE

\* Mutex::lock returns to task t: no other task holds the guard
LockAcquired(t) == \A u \in Tasks \ {t} : ~HoldsLock(u)

(***************************************************************************)
(* NotifyClient::new with a non-empty key: OfflineQueue::new loads the     *)
(* file when the queue is enabled; is_online starts true.                  *)
(***************************************************************************)
NewQueue(configured, file) == IF configured THEN LoadFromStorage(file) ELSE <<>>

\* the state after construction, with a budget of calls
Constructed(files, n) ==
    /\ \E c \in Configs, f \in files :
         /\ has_queue = c[1]
         /\ max_size = c[2]
         /\ storage = f
         /\ queue = NewQueue(c[1], f)
         /\ only_adds = (c[1] /\ NewQueue(c[1], f) = <<>>)
    /\ is_online = TRUE
    /\ task = [t \in Tasks |-> IdleTask]
    /\ last = NoCall
    /\ added = <<>>
    /\ writes_ok = TRUE
    /\ pristine = TRUE
    /\ prev = None
    /\ budget = n
    /\ restarts = 0
    /\ client = ReadyClient
    /\ connection_state = "Disconnected"
    /\ builder = None
    /\ GLOBAL_CLIENT = None
    /\ inits = <<>>

Init == Constructed(InitialFiles, MaxCalls)

ConcurrentInit == Constructed(ConcurrentInitialFiles, MaxConcurrentCalls)

(***************************************************************************)
(* Bookkeeping shared by the steps                                         *)
(***************************************************************************)
\* the tasks after task t took a step that left it as `new`.  `disturbs`: the
\* step enqueued or cleared is_online; `fails`: the transport answered it with
\* a failure.  Every other call in progress has then seen that.
Stepped(t, new, disturbs, fails) ==
    [u \in Tasks |->
        IF u = t THEN new
        ELSE IF Idle(u) THEN task[u]
        ELSE [task[u] EXCEPT !.clean = @ /\ ~disturbs,
                             !.no_failure = @ /\ ~fails,
                             !.alone = FALSE]]

\* a call starts on the client; b is the EventBuilder it was made from, if any
StartCallFrom(b) ==
    /\ client.constructed
    /\ budget > 0
    /\ budget' = budget - 1
    /\ pristine' = FALSE
    /\ prev' = None
    /\ builder' = b
    /\ UNCHANGED <<config, restarts, client, connection_state, GLOBAL_CLIENT,
                   inits>>

StartCall == StartCallFrom(None)

\* send_payload returned v after the transport answered r; its add, if any,
\* found the queue n long; it caused a POSTs
SentCall(v, r, n, a) ==
    [NoCall EXCEPT !.op = "send_payload", !.value = v, !.answer = r, !.before = n,
                   !.attempts = a]

\* send_payload unwound after the transport answered r; it caused a POSTs
PanickedCall(r, a) ==
    [NoCall EXCEPT !.op = "send_payload", !.panicked = TRUE, !.answer = r,
                   !.attempts = a]

\* flush returned
FlushedCall(probe, snapshot, sends) ==
    [NoCall EXCEPT !.op = "flush", !.probed = probe, !.n = Len(snapshot),
                   !.k = Cardinality({i \in 1..Len(sends) : sends[i].ok}),
                   !.attempts = Len(sends)]

(***************************************************************************)
(* NotifyClient::send_payload                                              *)
(***************************************************************************)
\* lines 87-89 and 97: the transport answers r; a success, or a failure with
\* no queue configured, is returned as it is.  The call has no effect before
\* the answer, so it is taken to start here.
TransportAnswers(t, p, r) ==
    /\ IF ShouldEnqueue(r, has_queue)
       THEN /\ task' = Stepped(t, [IdleTask EXCEPT !.pc = "sp_add", !.payload = p,
                                                   !.result = r,
                                                   !.attempts = Attempt(0)],
                               FALSE, ~r.success)
            /\ UNCHANGED last
       ELSE /\ task' = Stepped(t, IdleTask, FALSE, ~r.success)
            /\ last' = SentCall(r, r, 0, Attempt(0))
    /\ UNCHANGED <<shared, added, only_adds, writes_ok>>

SendPayload(t, p, r) ==
    /\ Idle(t)
    /\ StartCall
    /\ TransportAnswers(t, p, r)

\* line 91, queue.rs lines 37-54: add under the lock, up to drop(queue)
QueueAdd(t) ==
    /\ task[t].pc = "sp_add"
    /\ LockAcquired(t)
    /\ IF AddPanics(queue, max_size)
       THEN /\ task' = Stepped(t, IdleTask, FALSE, FALSE)
            /\ last' = PanickedCall(task[t].result, task[t].attempts)
            /\ UNCHANGED <<queue, added>>
       ELSE /\ queue' = AddMutate(queue, task[t].payload, max_size)
            /\ task' = Stepped(t, [task[t] EXCEPT !.pc = "sp_save",
                                                  !.len_before = Len(queue)],
                               TRUE, FALSE)
            /\ added' = IF only_adds THEN Append(added, task[t].payload) ELSE added
            /\ UNCHANGED last
    /\ UNCHANGED <<config, facade, storage, is_online, only_adds, writes_ok, pristine,
                   prev, counters>>

\* queue.rs line 101: save_to_storage takes the lock and serializes the Vec
SaveToStorage(t) ==
    /\ task[t].pc \in {"sp_save", "fl_save"}
    /\ LockAcquired(t)
    /\ task' = Stepped(t, [task[t] EXCEPT
                              !.pc = IF task[t].pc = "sp_save"
                                     THEN "sp_write" ELSE "fl_write",
                              !.json = ToJsonString(queue)],
                       FALSE, FALSE)
    /\ UNCHANGED <<config, facade, shared, last, history, counters>>

\* queue.rs lines 102-103 for add: fs::write, then the guard is dropped
WriteAfterAdd(t, f) ==
    /\ task[t].pc = "sp_write"
    /\ f \in WriteOutcomes(storage, task[t].json)
    /\ storage' = f
    /\ writes_ok' = (writes_ok /\ f = task[t].json)
    /\ IF SaveReturns(f, task[t].json)
       THEN /\ task' = Stepped(t, [task[t] EXCEPT !.pc = "sp_offline",
                                                  !.json = FileMissing],
                               FALSE, FALSE)
            /\ UNCHANGED last
       ELSE /\ task' = Stepped(t, IdleTask, FALSE, FALSE)
            /\ last' = PanickedCall(task[t].result, task[t].attempts)
    /\ UNCHANGED <<config, facade, queue, is_online, added, only_adds, pristine,
                   prev, counters>>

\* lines 92-93: is_online := false, return the queued result
SetOffline(t) ==
    /\ task[t].pc = "sp_offline"
    /\ is_online' = FALSE
    /\ task' = Stepped(t, IdleTask, TRUE, FALSE)
    /\ last' = SentCall(QueuedFor(task[t].result), task[t].result,
                        task[t].len_before, task[t].attempts)
    /\ UNCHANGED <<config, facade, queue, storage, history, counters>>

(***************************************************************************)
(* NotifyClient::flush                                                     *)
(***************************************************************************)
\* flush returns from task t; `probe` and `sends` are the probe's answer and
\* the sends of the call; `fails`: the step is a send the transport failed
FlushReturns(t, probe, sends, fails) ==
    /\ task' = Stepped(t, IdleTask, FALSE, fails)
    /\ last' = FlushedCall(probe, task[t].notifications, sends)

\* lines 159-162: no queue, or an empty one
FlushBegins(t) ==
    /\ Idle(t)
    /\ has_queue => LockAcquired(t)
    /\ IF NothingToFlush(has_queue, queue)
       THEN /\ UNCHANGED task
            /\ last' = FlushedCall(None, <<>>, <<>>)
       ELSE /\ task' = Stepped(t, [IdleTask EXCEPT !.pc = "fl_probe"],
                               FALSE, FALSE)
            /\ UNCHANGED last
    /\ UNCHANGED <<shared, added, only_adds, writes_ok>>

\* flush is called by task t
Flush(t) ==
    /\ StartCall
    /\ FlushBegins(t)

\* lines 164-166: the probe answers
FlushProbe(t, reachable) ==
    /\ task[t].pc = "fl_probe"
    /\ IF ProbeAllows(reachable)
       THEN /\ task' = Stepped(t, [task[t] EXCEPT !.pc = "fl_online",
                                                  !.probed = Some(reachable)],
                               FALSE, FALSE)
            /\ UNCHANGED last
       ELSE FlushReturns(t, Some(reachable), task[t].sent, FALSE)
    /\ UNCHANGED <<config, facade, shared, history, counters>>

\* line 168
FlushSetOnline(t) ==
    /\ task[t].pc = "fl_online"
    /\ is_online' = TRUE
    /\ task' = Stepped(t, [task[t] EXCEPT !.pc = "fl_snapshot"], FALSE, FALSE)
    /\ UNCHANGED <<config, facade, queue, storage, last, history, counters>>

\* lines 169-171: get_all, then the loop starts at the newest element
FlushSnapshot(t) ==
    /\ task[t].pc = "fl_snapshot"
    /\ LockAcquired(t)
    /\ IF Len(queue) = 0
       THEN FlushReturns(t, task[t].probed, task[t].sent, FALSE)
       ELSE /\ task' = Stepped(t, [task[t] EXCEPT
                                      !.pc = "fl_send",
                                      !.notifications = Clone(queue),
                                      !.idx = SweepFirst(Len(queue))],
                               FALSE, FALSE)
            /\ UNCHANGED last
    /\ UNCHANGED <<config, facade, shared, history, counters>>

\* lines 172-177: the transport answers r for notifications[i]
FlushSend(t, r) ==
    /\ task[t].pc = "fl_send"
    /\ LET sends == Append(task[t].sent, [i |-> task[t].idx, ok |-> r.success])
       IN IF SweepContinues(r)
          THEN /\ task' = Stepped(t, [task[t] EXCEPT !.pc = "fl_remove",
                                                     !.sent = sends],
                                  FALSE, ~r.success)
               /\ UNCHANGED last
          ELSE FlushReturns(t, task[t].probed, sends, ~r.success)
    /\ UNCHANGED <<config, facade, shared, history, counters>>

\* the loop goes on to the next older element, or flush returns
SweepStep(t) ==
    IF SweepDone(task[t].idx)
    THEN FlushReturns(t, task[t].probed, task[t].sent, FALSE)
    ELSE /\ task' = Stepped(t, [task[t] EXCEPT !.pc = "fl_send",
                                               !.idx = SweepNext(task[t].idx),
                                               !.json = FileMissing],
                            FALSE, FALSE)
         /\ UNCHANGED last

\* line 174, queue.rs lines 65-68: remove(i) under the lock; out of bounds it
\* does nothing and does not save
FlushRemove(t) ==
    /\ task[t].pc = "fl_remove"
    /\ LockAcquired(t)
    /\ IF RemoveInBounds(queue, task[t].idx)
       THEN /\ queue' = RemoveMutate(queue, task[t].idx)
            /\ only_adds' = FALSE
            /\ added' = <<>>
            /\ task' = Stepped(t, [task[t] EXCEPT !.pc = "fl_save"], FALSE, FALSE)
            /\ UNCHANGED last
       ELSE /\ SweepStep(t)
            /\ UNCHANGED <<queue, only_adds, added>>
    /\ UNCHANGED <<config, facade, storage, is_online, writes_ok, pristine, prev,
                   counters>>

\* queue.rs lines 102-103 for remove: fs::write, then the guard is dropped and
\* the loop goes on
WriteAfterRemove(t, f) ==
    /\ task[t].pc = "fl_write"
    /\ f \in WriteOutcomes(storage, task[t].json)
    /\ storage' = f
    /\ writes_ok' = (writes_ok /\ f = task[t].json)
    /\ IF SaveReturns(f, task[t].json)
       THEN SweepStep(t)
       ELSE /\ task' = Stepped(t, IdleTask, FALSE, FALSE)
            /\ last' = [FlushedCall(task[t].probed, task[t].notifications,
                                    task[t].sent) EXCEPT !.panicked = TRUE]
    /\ UNCHANGED <<config, facade, queue, is_online, added, only_adds, pristine,
                   prev, counters>>

(***************************************************************************)
(* builder.rs: EventBuilder                                                *)
(***************************************************************************)
\* EventBuilder::new, then with_title / with_message / with_severity or not
NewBuilder(event_type) ==
    [event_type |-> event_type, title |-> None, message |-> None,
     severity |-> "Info"]

\* the builders callers send: no title, an empty one, and titles with or
\* without the other setters
Builders ==
    {NewBuilder("order.created"),
     [NewBuilder("order.created") EXCEPT !.title = Some("")],
     [NewBuilder("order.created") EXCEPT !.title = Some("A")],
     [NewBuilder("payment.failed") EXCEPT !.title = Some("B"),
                                          !.message = Some("declined"),
                                          !.severity = "Error"]}

\* Result<NotificationPayload, &str>
Ok(payload) == [ok |-> TRUE, payload |-> payload, error |-> ""]
Err(error) == [ok |-> FALSE, payload |-> PA, error |-> error]

\* a build that also rejects the empty string
BuildChecked(b) ==
    IF b.title = None \/ b.title = Some("")
    THEN Err("Notification title is required")
    ELSE Ok([event_type |-> b.event_type, title |-> b.title[1],
             message |-> b.message, severity |-> Some(b.severity)])

\* build, lines 121-144: title.ok_or(..)?, then the payload
Build(b) ==
    IF b.title = None
    THEN Err("Notification title is required")
    ELSE Ok([event_type |-> b.event_type, title |-> b.title[1],
             message |-> b.message, severity |-> Some(b.severity)])

\* send, lines 147-152: send_payload on what build returns, or a failure
\* result carrying build's error
BuilderSend(t, b, r) ==
    /\ Idle(t)
    /\ StartCallFrom(Some(b))
    /\ IF Build(b).ok
       THEN TransportAnswers(t, Build(b).payload, r)
       ELSE /\ last' = [NoCall EXCEPT !.op = "send",
                                      !.value = SendResultFailure(Build(b).error)]
            /\ UNCHANGED <<shared, task, added, only_adds, writes_ok>>

(***************************************************************************)
(* client.rs: construction and the connection state                        *)
(***************************************************************************)
\* new that accepts any key
KeyNeverMissing(api_key) == FALSE

\* new, line 24 (and NotifyOptionsBuilder::build, config.rs line 132)
KeyMissing(api_key) == api_key = ""

\* the keys callers pass
ApiKeys == {"", "sk_live"}

\* new, lines 23-52, on no client: an empty key returns Err before anything
\* is created; otherwise the transport, the queue (loaded from the file when
\* enabled) and the client are created
New(api_key, c) ==
    /\ ~client.constructed
    /\ budget > 0
    /\ budget' = budget - 1
    /\ IF KeyMissing(api_key)
       THEN /\ client' = Refused(api_key, "API key is required")
            /\ UNCHANGED <<config, shared, only_adds, connection_state>>
       ELSE /\ client' = Ready(api_key)
            /\ has_queue' = c[1]
            /\ max_size' = c[2]
            /\ queue' = NewQueue(c[1], storage)
            /\ only_adds' = (c[1] /\ NewQueue(c[1], storage) = <<>>)
            /\ is_online' = TRUE
            /\ connection_state' = "Disconnected"
            /\ UNCHANGED storage
    /\ UNCHANGED <<task, last, added, writes_ok, pristine, prev, restarts, builder,
                   GLOBAL_CLIENT, inits>>

\* a call on the client that starts and returns in one step and leaves the
\* queue, the file and is_online alone
Returns(t, op) ==
    /\ Idle(t)
    /\ client.constructed
    /\ budget > 0
    /\ budget' = budget - 1
    /\ pristine' = FALSE
    /\ prev' = None
    /\ builder' = None
    /\ last' = [NoCall EXCEPT !.op = op]
    /\ UNCHANGED <<config, shared, task, added, only_adds, writes_ok, restarts,
                   client, GLOBAL_CLIENT, inits>>

\* a connect that only starts connecting
StateWhileConnecting == "Connecting"

\* connect, line 132
StateAfterConnect == "Connected"

\* disconnect, line 140
StateAfterDisconnect == "Disconnected"

\* connect, lines 131-136
Connect(t) ==
    /\ Returns(t, "connect")
    /\ connection_state' = StateAfterConnect

\* disconnect, lines 139-141
Disconnect(t) ==
    /\ Returns(t, "disconnect")
    /\ connection_state' = StateAfterDisconnect

\* subscribe_to_user, lines 144-148: a debug line at most
SubscribeToUser(t) ==
    /\ Returns(t, "subscribe_to_user")
    /\ UNCHANGED connection_state

\* subscribe_to_app, lines 151-155: a debug line at most
SubscribeToApp(t) ==
    /\ Returns(t, "subscribe_to_app")
    /\ UNCHANGED connection_state

(***************************************************************************)
(* lib.rs: the global client behind a OnceCell, and the functions that     *)
(* reach a client through it                                               *)
(***************************************************************************)
\* Result<(), &str> / Result<&Arc<NotifyClient>, &str>: Ok and Err(error)
GlobalOk == [NoResult EXCEPT !.success = TRUE]
GlobalErr(error) == [NoResult EXCEPT !.error = Some(error)]

\* a cell that takes every value it is given
SetOverwrites(cell, v) == [cell |-> Some(v), ok |-> TRUE]

\* OnceCell::set: an empty cell takes the value; a full one keeps its own and
\* hands the new value back as Err
Set(cell, v) ==
    IF cell = None THEN [cell |-> Some(v), ok |-> TRUE]
                   ELSE [cell |-> cell, ok |-> FALSE]

\* the keys init is called with
GlobalKeys == ApiKeys \cup {"sk_test"}

\* the client built by the n-th call of init, with key api_key
GlobalClient(api_key, n) == [api_key |-> api_key, init |-> n]

\* init / init_with_options, lines 74-82: NotifyClient::new(options)? and then
\* GLOBAL_CLIENT.set.  The client built by an init that finds the cell full is
\* dropped; building it only read the file.
InitWithOptions(t, api_key, c) ==
    /\ Idle(t)
    /\ budget > 0
    /\ budget' = budget - 1
    /\ inits' = Append(inits, api_key)
    /\ IF KeyMissing(api_key)
       THEN /\ last' = [NoCall EXCEPT !.op = "init",
                                      !.value = GlobalErr("API key is required")]
            /\ UNCHANGED <<config, shared, only_adds, client, connection_state,
                           GLOBAL_CLIENT>>
       ELSE LET set == Set(GLOBAL_CLIENT, GlobalClient(api_key, Len(inits) + 1))
            IN /\ GLOBAL_CLIENT' = set.cell
               /\ IF set.ok
                  THEN /\ client' = Ready(api_key)
                       /\ has_queue' = c[1]
                       /\ max_size' = c[2]
                       /\ queue' = NewQueue(c[1], storage)
                       /\ only_adds' = (c[1] /\ NewQueue(c[1], storage) = <<>>)
                       /\ is_online' = TRUE
                       /\ connection_state' = "Disconnected"
                       /\ last' = [NoCall EXCEPT !.op = "init",
                                                 !.value = GlobalOk]
                       /\ UNCHANGED storage
                  ELSE /\ last' = [NoCall EXCEPT
                                      !.op = "init",
                                      !.value = GlobalErr("Already initialized")]
                       /\ UNCHANGED <<config, shared, only_adds, client,
                                      connection_state>>
    /\ UNCHANGED <<task, added, writes_ok, pristine, prev, restarts, builder>>

\* get_client()? in a function of lib.rs named op: the cell is empty and the
\* function returns the error
NotInitialized(op) ==
    /\ budget > 0
    /\ budget' = budget - 1
    /\ last' = [NoCall EXCEPT
                   !.op = op,
                   !.value = GlobalErr("Not initialized. Call init() first.")]
    /\ UNCHANGED <<config, shared, task, history, restarts, facade>>

\* get_client, lines 85-87
GetClient(t) ==
    /\ Idle(t)
    /\ budget > 0
    /\ budget' = budget - 1
    /\ last' = [NoCall EXCEPT
                   !.op = "get_client",
                   !.value = IF GLOBAL_CLIENT = None
                             THEN GlobalErr("Not initialized. Call init() first.")
                             ELSE GlobalOk]
    /\ UNCHANGED <<config, shared, task, history, restarts, facade>>

\* notify, lines 90-96: get_client()?, then client.notify (client.rs 55-62)
GlobalNotify(t, r) ==
    /\ Idle(t)
    /\ IF GLOBAL_CLIENT = None
       THEN NotInitialized("notify")
       ELSE SendPayload(t, NewPayload("order.created", "A"), r)

\* event, lines 99-102, and the send of the builder it returns
GlobalEvent(t, b, r) ==
    /\ Idle(t)
    /\ IF GLOBAL_CLIENT = None
       THEN NotInitialized("event")
       ELSE BuilderSend(t, b, r)

\* flush, lines 133-137: get_client()?, then client.flush
GlobalFlush(t) ==
    /\ Idle(t)
    /\ IF GLOBAL_CLIENT = None
       THEN NotInitialized("flush")
       ELSE Flush(t)

(***************************************************************************)
(* queue.rs: the operations of OfflineQueue as two threads that share one  *)
(* queue call them, add line by line                                       *)
(***************************************************************************)
\* a queue operation returned (or add unwound)
QueueCall(op, panicked) == [NoCall EXCEPT !.op = op, !.panicked = panicked]

\* add, line 37: lock() returns
AddLock(t, p) ==
    /\ Idle(t)
    /\ LockAcquired(t)
    /\ StartCall
    /\ task' = Stepped(t, [IdleTask EXCEPT !.pc = "add_locked", !.payload = p],
                       FALSE, FALSE)
    /\ UNCHANGED <<shared, last, added, only_adds, writes_ok>>

\* add, lines 39-41: at capacity, remove(0); it panics on an empty Vec and the
\* guard is dropped as the call unwinds
AddEvict(t) ==
    /\ task[t].pc = "add_locked"
    /\ IF AddPanics(queue, max_size)
       THEN /\ task' = Stepped(t, IdleTask, FALSE, FALSE)
            /\ last' = QueueCall("add", TRUE)
            /\ UNCHANGED queue
       ELSE /\ queue' = IF AddEvicts(queue, max_size) THEN Tail(queue) ELSE queue
            /\ task' = Stepped(t, [task[t] EXCEPT !.pc = "add_push"], FALSE, FALSE)
            /\ UNCHANGED last
    /\ UNCHANGED <<config, facade, storage, is_online, history, counters>>

\* add, lines 53-54: push, drop(queue)
AddPush(t) ==
    /\ task[t].pc = "add_push"
    /\ queue' = Append(queue, task[t].payload)
    /\ added' = IF only_adds THEN Append(added, task[t].payload) ELSE added
    /\ task' = Stepped(t, [task[t] EXCEPT !.pc = "q_save"], TRUE, FALSE)
    /\ UNCHANGED <<config, facade, storage, is_online, last, only_adds, writes_ok,
                   pristine, prev, counters>>

\* remove, lines 65-68: under the lock; out of bounds it returns without saving
QueueRemove(t, index) ==
    /\ Idle(t)
    /\ LockAcquired(t)
    /\ StartCall
    /\ IF RemoveInBounds(queue, index)
       THEN /\ queue' = RemoveMutate(queue, index)
            /\ only_adds' = FALSE
            /\ added' = <<>>
            /\ task' = Stepped(t, [IdleTask EXCEPT !.pc = "q_save"], FALSE, FALSE)
            /\ UNCHANGED last
       ELSE /\ last' = QueueCall("remove", FALSE)
            /\ UNCHANGED <<queue, only_adds, added, task>>
    /\ UNCHANGED <<storage, is_online, writes_ok>>

\* clear, line 75: lock().clear(), the guard dropped at the end of the statement
QueueClear(t) ==
    /\ Idle(t)
    /\ LockAcquired(t)
    /\ StartCall
    /\ queue' = <<>>
    /\ only_adds' = FALSE
    /\ added' = <<>>
    /\ task' = Stepped(t, [IdleTask EXCEPT !.pc = "q_save"], FALSE, FALSE)
    /\ UNCHANGED <<storage, is_online, last, writes_ok>>

\* get_all, line 60: lock().clone(); the caller holds the copy
GetAll(t) ==
    /\ Idle(t)
    /\ LockAcquired(t)
    /\ StartCall
    /\ task' = Stepped(t, [IdleTask EXCEPT !.pc = "q_got",
                                            !.notifications = Clone(queue)],
                       FALSE, FALSE)
    /\ UNCHANGED <<shared, last, added, only_adds, writes_ok>>

\* the caller of get_all drops the copy
GetAllDone(t) ==
    /\ task[t].pc = "q_got"
    /\ task' = Stepped(t, IdleTask, FALSE, FALSE)
    /\ last' = [QueueCall("get_all", FALSE) EXCEPT
                   !.n = Len(task[t].notifications)]
    /\ UNCHANGED <<config, facade, shared, history, counters>>

\* save_to_storage, lines 101-103, called by add, remove and clear: lock(),
\* to_string, fs::write leaving f in the file, and the guard dropped
QueueSave(t, f) ==
    /\ task[t].pc = "q_save"
    /\ LockAcquired(t)
    /\ f \in WriteOutcomes(storage, ToJsonString(queue))
    /\ storage' = f
    /\ writes_ok' = (writes_ok /\ f = ToJsonString(queue))
    /\ task' = Stepped(t, IdleTask, FALSE, FALSE)
    /\ last' = QueueCall("saved", ~SaveReturns(f, ToJsonString(queue)))
    /\ UNCHANGED <<config, facade, queue, is_online, added, only_adds, pristine,
                   prev, counters>>

(***************************************************************************)
(* The process exits with no call in progress and a new client is          *)
(* constructed against the same file, with options of its own.             *)
(***************************************************************************)
Restart(c) ==
    /\ AllIdle
    /\ restarts < MaxRestarts
    /\ restarts' = restarts + 1
    /\ has_queue' = c[1]
    /\ max_size' = c[2]
    /\ queue' = NewQueue(c[1], storage)
    /\ is_online' = TRUE
    /\ task' = [t \in Tasks |-> IdleTask]
    /\ last' = NoCall
    /\ added' = <<>>
    /\ only_adds' = (c[1] /\ NewQueue(c[1], storage) = <<>>)
    /\ writes_ok' = TRUE
    /\ pristine' = TRUE
    /\ prev' = IF has_queue
               THEN Some([queue |-> queue, writes_ok |-> writes_ok])
               ELSE None
    /\ connection_state' = "Disconnected"
    /\ builder' = None
    /\ UNCHANGED <<storage, budget, client, GLOBAL_CLIENT, inits>>

(***************************************************************************)
(* One caller: calls follow one another.  The file system may fail a       *)
(* write, and the process may restart between calls.                       *)
(***************************************************************************)
Caller == "t1"

Next ==
    \/ \E p \in Payloads, r \in TransportSend : SendPayload(Caller, p, r)
    \/ QueueAdd(Caller)
    \/ SaveToStorage(Caller)
    \/ \E f \in WriteOutcomes(storage, task[Caller].json) : WriteAfterAdd(Caller, f)
    \/ SetOffline(Caller)
    \/ Flush(Caller)
    \/ \E reachable \in TransportIsOnline : FlushProbe(Caller, reachable)
    \/ FlushSetOnline(Caller)
    \/ FlushSnapshot(Caller)
    \/ \E r \in TransportSend : FlushSend(Caller, r)
    \/ FlushRemove(Caller)
    \/ \E f \in WriteOutcomes(storage, task[Caller].json) :
          WriteAfterRemove(Caller, f)
    \/ \E c \in Configs : Restart(c)

Spec == Init /\ [][Next]_vars

(***************************************************************************)
(* Two callers on one client (Arc<NotifyClient> on a multi-threaded        *)
(* runtime): their steps interleave wherever no lock is held.  The file    *)
(* system does not fail here and the process does not restart.             *)
(***************************************************************************)
ConcurrentPayloads == {PB, PC}

ConcurrentNext ==
    \/ \E t \in Tasks, p \in ConcurrentPayloads, r \in TransportSend :
          SendPayload(t, p, r)
    \/ \E t \in Tasks : QueueAdd(t)
    \/ \E t \in Tasks : SaveToStorage(t)
    \/ \E t \in Tasks : WriteAfterAdd(t, task[t].json)
    \/ \E t \in Tasks : SetOffline(t)
    \/ \E t \in Tasks : Flush(t)
    \/ \E t \in Tasks, reachable \in TransportIsOnline : FlushProbe(t, reachable)
    \/ \E t \in Tasks : FlushSetOnline(t)
    \/ \E t \in Tasks : FlushSnapshot(t)
    \/ \E t \in Tasks, r \in TransportSend : FlushSend(t, r)
    \/ \E t \in Tasks : FlushRemove(t)
    \/ \E t \in Tasks : WriteAfterRemove(t, task[t].json)

ConcurrentSpec == ConcurrentInit /\ [][ConcurrentNext]_vars

(***************************************************************************)
(* The public face of the client, one caller: NotifyClient::new with any   *)
(* key, then sends through the EventBuilder or with a payload, flush, and  *)
(* the connection calls.  The file system does not fail here.              *)
(***************************************************************************)
BeforeNew(n) ==
    /\ storage \in {FileMissing, FileArray(<<PayloadToJson(PB)>>)}
    /\ client = NoClient
    /\ connection_state = "none"
    /\ has_queue = FALSE
    /\ max_size = 0
    /\ queue = <<>>
    /\ only_adds = FALSE
    /\ is_online = FALSE
    /\ task = [t \in Tasks |-> IdleTask]
    /\ last = NoCall
    /\ added = <<>>
    /\ writes_ok = TRUE
    /\ pristine = TRUE
    /\ prev = None
    /\ budget = n
    /\ restarts = 0
    /\ builder = None
    /\ GLOBAL_CLIENT = None
    /\ inits = <<>>

ApiInit == BeforeNew(MaxApiCalls)

ApiConfigs == {<<TRUE, 1>>, <<FALSE, 1>>}

ApiNext ==
    \/ \E api_key \in ApiKeys, c \in ApiConfigs : New(api_key, c)
    \/ \E b \in Builders, r \in TransportSend : BuilderSend(Caller, b, r)
    \/ \E r \in TransportSend : SendPayload(Caller, PC, r)
    \/ QueueAdd(Caller)
    \/ SaveToStorage(Caller)
    \/ WriteAfterAdd(Caller, task[Caller].json)
    \/ SetOffline(Caller)
    \/ Flush(Caller)
    \/ \E reachable \in TransportIsOnline : FlushProbe(Caller, reachable)
    \/ FlushSetOnline(Caller)
    \/ FlushSnapshot(Caller)
    \/ \E r \in TransportSend : FlushSend(Caller, r)
    \/ FlushRemove(Caller)
    \/ WriteAfterRemove(Caller, task[Caller].json)
    \/ Connect(Caller)
    \/ Disconnect(Caller)
    \/ SubscribeToUser(Caller)
    \/ SubscribeToApp(Caller)

ApiSpec == ApiInit /\ [][ApiNext]_vars

(***************************************************************************)
(* The functions of lib.rs, one caller: init with any key, any number of   *)
(* times, and get_client, notify, event and flush before and after.  The   *)
(* file system does not fail here.                                         *)
(***************************************************************************)
GlobalInit == BeforeNew(MaxGlobalCalls)

GlobalNext ==
    \/ \E api_key \in GlobalKeys, c \in ApiConfigs :
          InitWithOptions(Caller, api_key, c)
    \/ GetClient(Caller)
    \/ \E r \in TransportSend : GlobalNotify(Caller, r)
    \/ \E b \in Builders, r \in TransportSend : GlobalEvent(Caller, b, r)
    \/ GlobalFlush(Caller)
    \/ QueueAdd(Caller)
    \/ SaveToStorage(Caller)
    \/ WriteAfterAdd(Caller, task[Caller].json)
    \/ SetOffline(Caller)
    \/ \E reachable \in TransportIsOnline : FlushProbe(Caller, reachable)
    \/ FlushSetOnline(Caller)
    \/ FlushSnapshot(Caller)
    \/ \E r \in TransportSend : FlushSend(Caller, r)
    \/ FlushRemove(Caller)
    \/ WriteAfterRemove(Caller, task[Caller].json)

GlobalSpec == GlobalInit /\ [][GlobalNext]_vars

(***************************************************************************)
(* Recovery.  Two callers use up their calls against a transport that      *)
(* answers as it likes; from then on the probe answers reachable, every    *)
(* send is accepted, no send_payload is started, and flush is called again *)
(* and again.  Calls in progress go on, and every step that stays enabled  *)
(* is eventually taken.  The file system does not fail here.               *)
(***************************************************************************)
RecoveryInit == Constructed(ConcurrentInitialFiles, MaxRecoveryCalls)

\* the calls before the recovery have all been started
Recovered == budget = 0

\* is_online of the transport, before and after the recovery
RecoveryIsOnline == IF Recovered THEN {TRUE} ELSE TransportIsOnline

\* send of the transport, before and after the recovery
RecoverySend == IF Recovered THEN {r \in TransportSend : r.success}
                             ELSE TransportSend

\* flush is called once more, after the recovery
FlushAgain(t) ==
    /\ Recovered
    /\ FlushBegins(t)
    /\ UNCHANGED <<config, facade, pristine, prev, counters>>

\* the steps task t takes without a new call from outside, and its flushes
\* after the recovery
RecoveryStep(t) ==
    \/ QueueAdd(t)
    \/ SaveToStorage(t)
    \/ WriteAfterAdd(t, task[t].json)
    \/ SetOffline(t)
    \/ \E reachable \in RecoveryIsOnline : FlushProbe(t, reachable)
    \/ FlushSetOnline(t)
    \/ FlushSnapshot(t)
    \/ \E r \in RecoverySend : FlushSend(t, r)
    \/ FlushRemove(t)
    \/ WriteAfterRemove(t, task[t].json)
    \/ FlushAgain(t)

RecoveryNext ==
    \/ \E t \in Tasks, p \in ConcurrentPayloads, r \in TransportSend :
          SendPayload(t, p, r)
    \/ \E t \in Tasks : Flush(t)
    \/ \E t \in Tasks : QueueAdd(t)
    \/ \E t \in Tasks : SaveToStorage(t)
    \/ \E t \in Tasks : WriteAfterAdd(t, task[t].json)
    \/ \E t \in Tasks : SetOffline(t)
    \/ \E t \in Tasks, reachable \in RecoveryIsOnline : FlushProbe(t, reachable)
    \/ \E t \in Tasks : FlushSetOnline(t)
    \/ \E t \in Tasks : FlushSnapshot(t)
    \/ \E t \in Tasks, r \in RecoverySend : FlushSend(t, r)
    \/ \E t \in Tasks : FlushRemove(t)
    \/ \E t \in Tasks : WriteAfterRemove(t, task[t].json)
    \/ \E t \in Tasks : FlushAgain(t)

RecoverySpec ==
    /\ RecoveryInit
    /\ [][RecoveryNext]_vars
    /\ \A t \in Tasks : WF_vars(RecoveryStep(t))

(***************************************************************************)
(* Two threads on one OfflineQueue, calling its operations directly.       *)
(***************************************************************************)
QueueInit == Constructed(InitialFiles, MaxQueueCalls) /\ has_queue

QueueNext ==
    \/ \E t \in Tasks, p \in ConcurrentPayloads : AddLock(t, p)
    \/ \E t \in Tasks : AddEvict(t)
    \/ \E t \in Tasks : AddPush(t)
    \/ \E t \in Tasks, index \in 0..MaxSize : QueueRemove(t, index)
    \/ \E t \in Tasks : QueueClear(t)
    \/ \E t \in Tasks : GetAll(t)
    \/ \E t \in Tasks : GetAllDone(t)
    \/ \E t \in Tasks, f \in WriteOutcomes(storage, ToJsonString(queue)) :
          QueueSave(t, f)

QueueSpec == QueueInit /\ [][QueueNext]_vars

(***************************************************************************)
(* Steps of the single caller, as seen from outside                        *)
(***************************************************************************)
\* a send_payload call of the caller returns or unwinds in this step
SendPayloadEnds ==
    /\ task'[Caller].pc = "idle"
    /\ last'.op = "send_payload"
    /\ \/ task[Caller].pc \in {"sp_add", "sp_offline"}
       \/ task[Caller].pc = "idle" /\ budget' = budget - 1

\* a step of a send_payload call of the caller
SendPayloadStep ==
    \/ task[Caller].pc \in {"sp_add", "sp_save", "sp_write", "sp_offline"}
    \/ task'[Caller].pc = "sp_add"
    \/ SendPayloadEnds

(***************************************************************************)
(* C1.  In every reachable state the queue's length is at most max_size,   *)
(* a queue loaded from a file that an earlier instance wrote included.     *)
(***************************************************************************)
C1_LengthWithinMaxSize == has_queue => Len(queue) <= max_size

(***************************************************************************)
(* C2.  As claimed: a send_payload whose transport attempt failed, with a  *)
(* queue configured, returns queued = true and success = false, leaves the *)
(* queue exactly one longer than it found it, and leaves is_online false.  *)
(***************************************************************************)
C2_QueuedGrowsByOne ==
    (AllIdle /\ last.op = "send_payload" /\ has_queue /\ ~last.answer.success
        /\ ~last.panicked)
    => /\ last.value.queued /\ ~last.value.success
       /\ Len(queue) = last.before + 1
       /\ ~is_online

(***************************************************************************)
(* C2, amended.  Such a call unwinds only when max_size is 0 and the queue *)
(* is empty, and then changes nothing.  Whenever it returns, its result    *)
(* has queued = true and success = false and is_online is false; the queue *)
(* is one longer than the call found it when it was shorter than max_size, *)
(* and as long as the call found it otherwise (the oldest was evicted).    *)
(***************************************************************************)
C2_QueuedGrowsUnlessFull ==
    (AllIdle /\ last.op = "send_payload" /\ has_queue /\ ~last.answer.success)
    => IF last.panicked
       THEN max_size = 0 /\ queue = <<>>
       ELSE /\ last.value.queued /\ ~last.value.success
            /\ Len(queue) = IF last.before < max_size
                            THEN last.before + 1 ELSE last.before
            /\ ~is_online

\* a call returned queued after its add found the queue full
C2_Witness ==
    /\ AllIdle /\ has_queue /\ max_size = 2
    /\ last.op = "send_payload" /\ last.value.queued
    /\ last.before = 2 /\ Len(queue) = 2
    /\ ~is_online

(***************************************************************************)
(* C3.  A send_payload whose transport attempt succeeded returns the       *)
(* transport's result as it is, in the step in which the transport         *)
(* answers, and no step of the call changes the queue, the file or         *)
(* is_online.                                                              *)
(***************************************************************************)
C3_SuccessTouchesNothing ==
    [][ /\ (SendPayloadStep /\ task'[Caller].result.success)
            => UNCHANGED <<queue, storage, is_online>>
        /\ (SendPayloadStep /\ task[Caller].result.success)
            => UNCHANGED <<queue, storage, is_online>>
        /\ (SendPayloadEnds /\ last'.answer.success)
            => /\ last'.value = last'.answer
               /\ task[Caller].pc = "idle"
               /\ UNCHANGED <<queue, storage, is_online>> ]_vars

\* a successful send returned while the queue held a payload and is_online
\* was false
C3_Witness ==
    /\ AllIdle /\ has_queue
    /\ last.op = "send_payload" /\ last.value.success
    /\ last.value.notification_id = Some("n1")
    /\ queue # <<>> /\ storage = ToJsonString(queue)
    /\ ~is_online

(***************************************************************************)
(* C4.  As claimed: a flush that found N >= 1 payloads, whose probe said   *)
(* reachable and during which the transport answered every send with a     *)
(* success, returns with the queue empty and is_online true.               *)
(***************************************************************************)
\* task t's flush returns in this step, after a reachable probe
SweepEnds(t) ==
    /\ task[t].pc \in {"fl_snapshot", "fl_send", "fl_remove", "fl_write"}
    /\ task'[t].pc = "idle"

\* the transport answered every send of task t's flush with a success: the
\* sends before this step, and this step is not a send that failed
AllSendsSucceeded(t) ==
    /\ \A j \in 1..Len(task[t].sent) : task[t].sent[j].ok
    /\ task[t].pc = "fl_send" => last'.k = Len(task[t].sent) + 1

C4_FlushDrains ==
    [][\A t \in Tasks :
          (SweepEnds(t) /\ AllSendsSucceeded(t) /\ task[t].no_failure)
          => (queue' = <<>> /\ is_online')]_vars

(***************************************************************************)
(* C4, amended.  A flush that found N >= 1 payloads, whose probe said      *)
(* reachable, whose sends the transport all answered with a success and    *)
(* during which no send_payload call enqueued its payload or set is_online *)
(* to false, returns with the queue empty and is_online true.              *)
(***************************************************************************)
C4_UndisturbedFlushDrains ==
    [][\A t \in Tasks :
          (SweepEnds(t) /\ AllSendsSucceeded(t) /\ task[t].clean)
          => (queue' = <<>> /\ is_online')]_vars

\* a flush returned after delivering both payloads of its snapshot
C4_Witness ==
    /\ AllIdle /\ has_queue
    /\ last.op = "flush" /\ last.probed = Some(TRUE)
    /\ last.n = 2 /\ last.k = 2
    /\ queue = <<>> /\ is_online

(***************************************************************************)
(* C5.  With a single caller: when a flush halts at a failed send after k  *)
(* successful ones over a snapshot of n payloads, it has sent the k newest *)
(* payloads, newest first, and the queue is the n - k oldest payloads of   *)
(* the snapshot in their order; with k = 0 it is the whole snapshot.       *)
(***************************************************************************)
C5_HaltKeepsOldest ==
    [][(task[Caller].pc = "fl_send" /\ task'[Caller].pc = "idle")
       => LET snapshot == task[Caller].notifications
              n == Len(snapshot)
              k == Len(task[Caller].sent)
          IN /\ k < n
             /\ \A j \in 1..k : task[Caller].sent[j] = [i |-> n - j, ok |-> TRUE]
             /\ last'.n = n /\ last'.k = k
             /\ queue' = SubSeq(snapshot, 1, n - k)]_vars

\* a flush over two payloads halted after delivering the newer one
C5_Witness ==
    /\ AllIdle /\ has_queue
    /\ last.op = "flush" /\ last.n = 2 /\ last.k = 1
    /\ Len(queue) = 1

(***************************************************************************)
(* C6.  A flush whose probe says unreachable returns in that step: it      *)
(* hands nothing to transport.send and leaves the queue, the file and      *)
(* is_online as they were.                                                 *)
(***************************************************************************)
C6_UnreachableIsNoOp ==
    [][ /\ task'[Caller].probed # Some(FALSE)
        /\ (task[Caller].pc = "fl_probe" /\ task'[Caller].pc = "idle")
            => /\ last'.probed = Some(FALSE)
               /\ task[Caller].sent = <<>>
               /\ last'.n = 0 /\ last'.k = 0
               /\ UNCHANGED <<queue, storage, is_online>> ]_vars

\* a flush returned at an unreachable probe with two payloads queued
C6_Witness ==
    /\ AllIdle /\ has_queue
    /\ last.op = "flush" /\ last.probed = Some(FALSE)
    /\ Len(queue) = 2 /\ ~is_online

(***************************************************************************)
(* C7.  On a queue constructed empty with max_size >= 1 on which only add  *)
(* has acted, the queue is the min(number of adds, max_size) most recently *)
(* added payloads, oldest first.                                           *)
(***************************************************************************)
Min(a, b) == IF a <= b THEN a ELSE b

LastN(seq, n) == SubSeq(seq, Len(seq) - n + 1, Len(seq))

C7_KeepsMostRecent ==
    (has_queue /\ only_adds /\ max_size >= 1)
    => queue = LastN(added, Min(Len(added), max_size))

\* max_size + 2 adds on a queue of capacity 2
C7_Witness ==
    /\ AllIdle /\ has_queue /\ only_adds
    /\ max_size = 2 /\ Len(added) = 4
    /\ queue = SubSeq(added, 3, 4)

(***************************************************************************)
(* C8.  A queue constructed after a restart, from the file left by an      *)
(* instance whose writes all succeeded, equals that instance's in-memory   *)
(* queue, element by element.                                              *)
(***************************************************************************)
C8_RoundTrip ==
    (prev # None /\ has_queue /\ prev[1].writes_ok) => queue = prev[1].queue

\* the new instance holds the two payloads the earlier one had queued; no
\* initial file holds them
C8_Witness ==
    /\ prev # None /\ has_queue /\ prev[1].writes_ok
    /\ restarts = 1
    /\ queue = <<PB, PC>>

(***************************************************************************)
(* C9.  A queue constructed while the file is missing, unreadable or       *)
(* unparsable is empty.                                                    *)
(***************************************************************************)
Unparsable(file) ==
    \/ file.kind \in {"missing", "unreadable", "garbage"}
    \/ \E i \in 1..Len(file.items) : ~PayloadParses(file.items[i])

C9_BadFileLoadsEmpty ==
    (pristine /\ has_queue /\ Unparsable(storage)) => queue = <<>>

\* constructed after a restart, over the truncated file a failed write left
C9_Witness ==
    /\ pristine /\ has_queue /\ restarts = 1
    /\ storage = FileGarbage
    /\ prev # None /\ prev[1].queue # <<>>
    /\ queue = <<>>

(***************************************************************************)
(* C10.  A queued result carries the reason of the failed transport        *)
(* attempt as its error, and no notification id.                           *)
(***************************************************************************)
C10_QueuedCarriesReason ==
    (last.op = "send_payload" /\ last.value.queued)
    => /\ last.answer.error # None
       /\ last.value.error = last.answer.error
       /\ last.value.notification_id = None

\* a call returned queued with the transport's reason
C10_Witness ==
    /\ AllIdle
    /\ last.op = "send_payload" /\ last.value.queued
    /\ last.answer = SendResultFailure("rate limited")
    /\ last.value.error = Some("rate limited")

(***************************************************************************)
(* C11.  A send_payload whose transport attempt failed on a client without *)
(* an offline queue returns the transport's failure as it is (success and  *)
(* queued false, the same reason) in the step in which the transport       *)
(* answers; no task keeps the payload and the queue, the file and          *)
(* is_online are unchanged.                                                *)
(***************************************************************************)
C11_FailureWithoutQueue ==
    [][(SendPayloadEnds /\ ~has_queue /\ ~last'.answer.success)
       => /\ last'.value = last'.answer
          /\ ~last'.value.success /\ ~last'.value.queued
          /\ last'.value.error # None
          /\ task[Caller].pc = "idle"
          /\ task' = [t \in Tasks |-> IdleTask]
          /\ UNCHANGED <<queue, storage, is_online>>]_vars

\* a failure was returned as it was by a client without a queue
C11_Witness ==
    /\ AllIdle /\ ~has_queue
    /\ last.op = "send_payload"
    /\ last.value = SendResultFailure("HTTP 500")
    /\ queue = <<>> /\ is_online

(***************************************************************************)
(* C12.  A send_payload call causes exactly one transport attempt: one     *)
(* when the transport answers, whatever the answer, and none in the steps  *)
(* that queue the payload.                                                 *)
(***************************************************************************)
C12_OneAttemptPerCall ==
    [][ /\ SendPayloadEnds => last'.attempts = 1
        /\ task'[Caller].pc \in {"sp_add", "sp_save", "sp_write", "sp_offline"}
            => task'[Caller].attempts = 1 ]_vars

\* a call whose attempt failed returned queued after one attempt
C12_Witness ==
    /\ AllIdle /\ has_queue
    /\ last.op = "send_payload" /\ last.value.queued
    /\ last.attempts = 1
    /\ queue # <<>>

(***************************************************************************)
(* C13.  Whenever a flush removes an element from the queue, the element   *)
(* removed is the payload of its snapshot that the transport has just      *)
(* accepted: remove(i) hits, in the live queue, the payload that stood at  *)
(* index i of the snapshot.                                                *)
(***************************************************************************)
C13_RemovalHitsDelivered ==
    [][\A t \in Tasks :
          (task[t].pc = "fl_remove" /\ task'[t].pc = "fl_save")
          => queue[task[t].idx + 1] = task[t].notifications[task[t].idx + 1]]_vars

(***************************************************************************)
(* C14.  Queue operations are atomic with respect to one another: while a  *)
(* thread stands inside add, between its eviction and its push, no other   *)
(* thread changes the queue, and the copy get_all returns is the queue as  *)
(* whole operations left it, no add being under way.                       *)
(***************************************************************************)
\* task t stands inside add
MidOperation(t) == task[t].pc \in {"add_locked", "add_push"}

C14_OperationsAreAtomic ==
    [][\A t \in Tasks :
          /\ (task[t].pc = "idle" /\ task'[t].pc = "q_got")
              => /\ task'[t].notifications = queue
                 /\ \A u \in Tasks \ {t} : ~MidOperation(u)
          /\ (MidOperation(t) /\ queue' # queue) => task'[t].pc # task[t].pc]_vars

\* get_all returned the queue as an add of the other thread left it, after its
\* eviction and push and before its save
C14_Witness ==
    \E t \in Tasks, u \in Tasks :
        /\ task[t].pc = "q_got" /\ task[u].pc = "q_save"
        /\ max_size = 1
        /\ task[t].notifications = <<task[u].payload>>
        /\ storage = ToJsonString(<<PB>>) /\ task[u].payload = PC

(***************************************************************************)
(* C15.  While every write succeeds: whenever no thread stands inside a    *)
(* queue operation (between its lock() and the end of its save) and the    *)
(* queue was loaded non-empty or has been mutated since construction, the  *)
(* file is the serialized in-memory queue, whatever the interleaving.      *)
(***************************************************************************)
\* no task stands between a mutation's lock() and the end of its save
NoQueueOperation ==
    \A t \in Tasks :
        task[t].pc \notin {"sp_save", "sp_write", "fl_save", "fl_write",
                           "add_locked", "add_push", "q_save"}

C15_ImageMatchesQueue ==
    (has_queue /\ writes_ok /\ NoQueueOperation /\ (~only_adds \/ added # <<>>))
    => storage = ToJsonString(queue)

\* one task has finished its add while the other's flush awaits the transport,
\* and the file holds both the loaded and the added payload
C15_Witness ==
    \E t \in Tasks, u \in Tasks :
        /\ task[t].pc = "fl_send" /\ task[u].pc = "sp_offline"
        /\ has_queue /\ Len(queue) = 2
        /\ storage = ToJsonString(queue)

(***************************************************************************)
(* C16.  As claimed: an EventBuilder whose title was set to a non-empty    *)
(* string builds; with no title, or the empty string as title, build       *)
(* fails, and send returns a failure carrying the validation error in the  *)
(* step it is called, with no transport attempt and the queue, the file    *)
(* and is_online unchanged.                                                *)
(***************************************************************************)
EmptyTitle(b) == b.title = None \/ b.title = Some("")

\* EventBuilder::send is called in this step
BuilderSendStep == builder' # None /\ budget' = budget - 1

C16_EmptyTitleIsRejected ==
    [][BuilderSendStep
       => LET b == builder'[1]
          IN /\ ~EmptyTitle(b) => Build(b).ok
             /\ EmptyTitle(b)
                 => /\ ~Build(b).ok
                    /\ last'.op = "send"
                    /\ last'.value =
                           SendResultFailure("Notification title is required")
                    /\ last'.attempts = 0
                    /\ task' = task
                    /\ UNCHANGED <<queue, storage, is_online>>]_vars

(***************************************************************************)
(* C17.  NotifyClient::new with an empty key returns the error and leaves  *)
(* nothing behind: no client, no transport, no queue (the file is not      *)
(* read), and while there is no client no call has been made; with a       *)
(* non-empty key it returns a client with is_online true and the           *)
(* connection state Disconnected.                                          *)
(***************************************************************************)
\* NotifyClient::new is called in this step
NewStep == ~client.constructed /\ budget' = budget - 1

C17_EmptyKeyConstructsNothing ==
    [][ /\ NewStep
            => IF client'.api_key = ""
               THEN /\ client' = Refused("", "API key is required")
                    /\ UNCHANGED <<config, shared, task, last, connection_state>>
               ELSE /\ client'.constructed /\ client'.transport
                    /\ client'.error = None
                    /\ is_online'
                    /\ connection_state' = "Disconnected"
        /\ ~client'.constructed
            => /\ ~client'.transport
               /\ ~has_queue' /\ queue' = <<>>
               /\ last' = NoCall
               /\ task' = [t \in Tasks |-> IdleTask] ]_vars

\* new has returned the error although the file holds a queued payload
C17_Witness ==
    /\ client = Refused("", "API key is required")
    /\ storage = FileArray(<<PayloadToJson(PB)>>)
    /\ ~has_queue /\ queue = <<>>
    /\ budget = MaxApiCalls - 2

(***************************************************************************)
(* C18.  The connection state of a client is Disconnected when it is       *)
(* constructed, Connected when connect returns and Disconnected when       *)
(* disconnect returns; it is never Connecting or Reconnecting, and no step *)
(* of any other call changes it.                                           *)
(***************************************************************************)
C18_ConnectionStateFollowsCalls ==
    [][ /\ client'.constructed
            => connection_state' \in {"Disconnected", "Connected"}
        /\ (client'.constructed /\ ~client.constructed)
            => connection_state' = "Disconnected"
        /\ (budget' = budget - 1 /\ last'.op = "connect")
            => connection_state' = "Connected"
        /\ (budget' = budget - 1 /\ last'.op = "disconnect")
            => connection_state' = "Disconnected"
        /\ (client.constructed /\ connection_state' # connection_state)
            => /\ budget' = budget - 1
               /\ last'.op \in {"connect", "disconnect"}
               /\ last'.op # last.op ]_vars

\* after connect, a send_payload was queued and the state is still Connected
C18_Witness ==
    /\ AllIdle /\ client.constructed
    /\ connection_state = "Connected"
    /\ last.op = "send_payload" /\ last.value.queued

(***************************************************************************)
(* C19.  A flush called with no queue configured, or with an empty queue,  *)
(* returns in the step it is called: no probe, no send, and the queue, the *)
(* file and is_online are as they were (is_online stays false if it was).  *)
(***************************************************************************)
\* task t calls flush in this step
FlushStarts(t) ==
    /\ task[t].pc = "idle"
    /\ budget' = budget - 1
    /\ \/ task'[t].pc = "fl_probe"
       \/ task' = task /\ last'.op = "flush"

C19_NothingToFlushIsNoOp ==
    [][\A t \in Tasks :
          (FlushStarts(t) /\ (~has_queue \/ queue = <<>>))
          => /\ task' = task
             /\ last'.op = "flush"
             /\ last'.probed = None
             /\ last'.attempts = 0
             /\ UNCHANGED <<queue, storage, is_online>>]_vars

\* a flush found the configured queue empty while is_online was false
C19_Witness ==
    /\ AllIdle /\ has_queue /\ queue = <<>> /\ ~is_online
    /\ last.op = "flush" /\ last.probed = None /\ last.attempts = 0

(***************************************************************************)
(* C20.  Within one flush the sends go through the snapshot from its       *)
(* newest element to its oldest, one index down at a time (so no element   *)
(* twice), every one after the probe answered reachable and is_online was  *)
(* set; a removal follows only a send that succeeded, and a send that      *)
(* fails ends the flush in that step with the queue and the file as they   *)
(* were.                                                                   *)
(***************************************************************************)
C20_SweepNewestToOldest ==
    [][\A t \in Tasks :
          LET sent == task[t].sent
              n == Len(task[t].notifications)
              i == task[t].idx
          IN /\ (task[t].pc = "fl_send" /\ task'[t].pc # "fl_send")
                 => /\ task[t].probed = Some(TRUE)
                    /\ is_online
                    /\ i \in 0..(n - 1)
                    /\ i = IF sent = <<>> THEN n - 1
                                           ELSE sent[Len(sent)].i - 1
                    /\ \A j \in 1..Len(sent) : sent[j].ok
                    /\ task'[t].pc \in {"fl_remove", "idle"}
                    /\ task'[t].pc = "idle"
                        => /\ last'.op = "flush"
                           /\ last'.attempts = Len(sent) + 1
                           /\ last'.k = Len(sent)
                           /\ UNCHANGED <<queue, storage>>
             /\ task'[t].pc = "fl_remove"
                 => /\ task'[t].sent # <<>>
                    /\ task'[t].sent[Len(task'[t].sent)] =
                           [i |-> task'[t].idx, ok |-> TRUE] ]_vars

\* a flush of two delivered the newest, failed on the oldest and stopped
C20_Witness ==
    /\ AllIdle /\ has_queue /\ is_online
    /\ last.op = "flush" /\ last.probed = Some(TRUE)
    /\ last.n = 2 /\ last.attempts = 2 /\ last.k = 1
    /\ queue = <<PB>> /\ storage = ToJsonString(queue)

(***************************************************************************)
(* C21.  get_all hands its caller the queue as it is, oldest first, and    *)
(* changes neither the queue nor the file; the copy a caller holds stays   *)
(* what it was while other threads add, remove and clear.                  *)
(***************************************************************************)
C21_GetAllCopies ==
    [][\A t \in Tasks :
          /\ (task[t].pc = "idle" /\ task'[t].pc = "q_got")
              => /\ task'[t].notifications = queue
                 /\ UNCHANGED <<queue, storage, is_online>>
          /\ (task[t].pc = "q_got" /\ task'[t].pc = "q_got")
              => task'[t].notifications = task[t].notifications
          /\ (task[t].pc = "q_got" /\ task'[t].pc = "idle")
              => /\ UNCHANGED <<queue, storage, is_online>>
                 /\ last'.n = Len(task[t].notifications)]_vars

\* a thread still holds the copy [B, C] after another thread cleared the queue
C21_Witness ==
    \E t \in Tasks :
       /\ task[t].pc = "q_got"
       /\ task[t].notifications = <<PB, PC>>
       /\ queue = <<>> /\ storage = ToJsonString(<<>>)

(***************************************************************************)
(* C22.  A write that fails in the save of an add, a remove or a clear is  *)
(* swallowed: the step leaves the queue as the operation made it, the      *)
(* operation goes on or returns without unwinding, and a later get_all or  *)
(* flush works on the queue in memory, not on the file.                    *)
(***************************************************************************)
\* task t's save writes in this step and the write fails
WriteFails(t) ==
    /\ task[t].pc \in {"q_save", "sp_write", "fl_write"}
    /\ task'[t].pc # task[t].pc
    /\ storage' # ToJsonString(queue)

C22_WriteFailureIsSwallowed ==
    [][\A t \in Tasks :
          /\ WriteFails(t)
              => /\ queue' = queue
                 /\ ~last'.panicked
                 /\ task[t].pc = "q_save"
                     => task'[t].pc = "idle" /\ last'.op = "saved"
                 /\ task[t].pc = "sp_write"
                     => /\ task'[t].pc = "sp_offline"
                        /\ task[t].payload = queue[Len(queue)]
                 /\ task[t].pc = "fl_write"
                     => /\ task'[t].pc \in {"fl_send", "idle"}
                        /\ task'[t].pc = "idle" => last'.op = "flush"
          /\ (task[t].pc = "sp_offline" /\ task'[t].pc = "idle")
              => last'.value.queued /\ ~last'.panicked
          /\ (task[t].pc = "idle" /\ task'[t].pc = "q_got")
              => task'[t].notifications = queue
          /\ (task[t].pc = "fl_snapshot" /\ task'[t].pc = "fl_send")
              => task'[t].notifications = queue
          /\ FlushStarts(t)
              => (task'[t].pc = "fl_probe" <=> (has_queue /\ queue # <<>>))]_vars

\* the write of a clear failed and left [C] in the file; get_all returned the
\* empty queue
C22_Witness ==
    \E t \in Tasks :
       /\ task[t].pc = "q_got" /\ task[t].notifications = <<>>
       /\ queue = <<>> /\ storage = ToJsonString(<<PC>>)
       /\ ~writes_ok /\ last.op = "saved" /\ ~last.panicked

(***************************************************************************)
(* C23.  While the cell is empty, get_client and the functions that go     *)
(* through it return the error and touch nothing.  An init with an empty   *)
(* key returns the key error and leaves the cell as it was; the first init *)
(* with a non-empty key fills the cell and returns Ok; every later init    *)
(* with a non-empty key returns "Already initialized"; and a full cell     *)
(* never changes, nor does an init change the installed client's state.    *)
(***************************************************************************)
\* init is called in this step
InitStep == Len(inits') = Len(inits) + 1

C23_InitOnce ==
    [][ /\ InitStep
            => LET api_key == inits'[Len(inits')]
               IN /\ last'.op = "init"
                  /\ IF api_key = ""
                     THEN /\ last'.value = GlobalErr("API key is required")
                          /\ UNCHANGED <<GLOBAL_CLIENT, client, config, shared>>
                     ELSE IF GLOBAL_CLIENT = None
                     THEN /\ last'.value = GlobalOk
                          /\ GLOBAL_CLIENT' =
                                 Some(GlobalClient(api_key, Len(inits')))
                          /\ client' = Ready(api_key)
                     ELSE /\ last'.value = GlobalErr("Already initialized")
                          /\ UNCHANGED <<GLOBAL_CLIENT, client, config, shared,
                                         connection_state>>
        /\ GLOBAL_CLIENT # None => GLOBAL_CLIENT' = GLOBAL_CLIENT
        /\ (GLOBAL_CLIENT = None /\ ~InitStep /\ budget' = budget - 1)
            => /\ last'.op \in {"get_client", "notify", "event", "flush"}
               /\ last'.value = GlobalErr("Not initialized. Call init() first.")
               /\ UNCHANGED <<GLOBAL_CLIENT, client, config, shared, task>>
        /\ GLOBAL_CLIENT' = None
            => ~client'.constructed /\ task' = [t \in Tasks |-> IdleTask] ]_vars

\* a second init, with another key, was refused; the first client is still
\* installed, with the payload it loaded from the file
C23_Witness ==
    /\ inits = <<"", "sk_live", "sk_test">>
    /\ GLOBAL_CLIENT = Some(GlobalClient("sk_live", 2))
    /\ client = Ready("sk_live")
    /\ last.op = "init" /\ last.value = GlobalErr("Already initialized")
    /\ storage = ToJsonString(<<PB>>) /\ queue = <<PB>>

(***************************************************************************)
(* C24.  As claimed: whatever max_size (0 included) and whatever the       *)
(* queue holds, an add goes through without unwinding and leaves its       *)
(* payload as the last element of the queue.                               *)
(***************************************************************************)
C24_AddAlwaysAppends ==
    [][\A t \in Tasks :
          /\ (task[t].pc = "add_locked" /\ task'[t].pc # "add_locked")
              => task'[t].pc = "add_push"
          /\ (task[t].pc = "add_push" /\ task'[t].pc # "add_push")
              => /\ queue' # <<>>
                 /\ queue'[Len(queue')] = task[t].payload
          /\ (task[t].pc = "sp_add" /\ task'[t].pc # "sp_add")
              => /\ task'[t].pc = "sp_save"
                 /\ queue' # <<>>
                 /\ queue'[Len(queue')] = task[t].payload]_vars

(***************************************************************************)
(* C25.  As claimed: on one client is_online goes from true to false only  *)
(* in the step of a send_payload that queued its payload after a failed    *)
(* attempt, with a queue configured, and from false to true only in the    *)
(* step of a flush that found the queue non-empty and whose probe answered *)
(* reachable.  A send_payload the transport accepted leaves it as it was,  *)
(* and so does a failed send inside a flush; every flush halted by a       *)
(* failed send returns with is_online true and the queue non-empty.        *)
(***************************************************************************)
\* is_online changes in this step only in one of the two ways
OnlineChangesTwoWays ==
    /\ (is_online /\ ~is_online')
        => \E t \in Tasks :
              /\ task[t].pc = "sp_offline" /\ task'[t].pc = "idle"
              /\ has_queue
              /\ ~task[t].result.success
              /\ last'.op = "send_payload" /\ last'.value.queued
    /\ (~is_online /\ is_online')
        => \E t \in Tasks :
              /\ task[t].pc = "fl_online" /\ task'[t].pc = "fl_snapshot"
              /\ task[t].probed = Some(TRUE)
              /\ has_queue

\* a send_payload the transport accepted returns in this step
AcceptedSendReturns ==
    /\ budget' = budget - 1
    /\ last'.op = "send_payload" /\ last'.answer.success
    /\ \A t \in Tasks : task'[t].pc = task[t].pc

\* a flush of task t halts in this step at a send the transport failed
FlushHalts(t) == task[t].pc = "fl_send" /\ task'[t].pc = "idle"

C25_OnlineFlagChanges ==
    [][restarts' = restarts
       => /\ OnlineChangesTwoWays
          /\ AcceptedSendReturns => is_online' = is_online
          /\ \A t \in Tasks :
                FlushHalts(t)
                => /\ is_online' = is_online
                   /\ is_online' /\ queue' # <<>>]_vars

(***************************************************************************)
(* C25, amended.  The same, with the last part for a flush during which no *)
(* other call on the client took a step: such a flush, halted by a failed  *)
(* send, returns with is_online true and the queue non-empty.  (With other *)
(* calls in between, a send_payload may have cleared is_online and another *)
(* flush may have emptied the queue.)                                      *)
(***************************************************************************)
C25_OnlineFlagChangesAlone ==
    [][restarts' = restarts
       => /\ OnlineChangesTwoWays
          /\ AcceptedSendReturns => is_online' = is_online
          /\ \A t \in Tasks :
                FlushHalts(t)
                => /\ is_online' = is_online
                   /\ task[t].alone => (is_online' /\ queue' # <<>>)]_vars

\* a flush set is_online, failed on its first send and returned; nothing
\* else ran meanwhile
C25_Witness ==
    /\ AllIdle /\ has_queue /\ is_online
    /\ last.op = "flush" /\ last.probed = Some(TRUE)
    /\ last.attempts = 1 /\ last.k = 0
    /\ Len(queue) = 1 /\ budget = MaxConcurrentCalls - 1

(***************************************************************************)
(* C26.  As claimed: however flush calls interleave, no queued payload is  *)
(* delivered twice.  Stated for two flushes in progress that took equal    *)
(* snapshots while no send_payload enqueued anything (so equal indices     *)
(* name the same queued payload): when the transport accepts element i     *)
(* from one of them, the other has not already had element i accepted.     *)
(***************************************************************************)
\* the transport accepts element i of task t's snapshot in this step
Delivers(t, i) ==
    /\ task[t].pc = "fl_send" /\ task'[t].pc = "fl_remove"
    /\ task[t].idx = i

\* task u's flush in progress has had element i of its snapshot accepted
HasDelivered(u, i) ==
    /\ task[u].pc \in {"fl_send", "fl_remove", "fl_save", "fl_write"}
    /\ \E j \in 1..Len(task[u].sent) : task[u].sent[j] = [i |-> i, ok |-> TRUE]

C26_DeliveredAtMostOnce ==
    [][\A t \in Tasks, u \in Tasks, i \in 0..MaxSize :
          (/\ t # u
           /\ Delivers(t, i)
           /\ task[t].clean /\ task[u].clean
           /\ task[u].notifications = task[t].notifications)
          => ~HasDelivered(u, i)]_vars

(***************************************************************************)
(* C27.  Once the transport has recovered (the probe answers reachable,    *)
(* every send is accepted, no send_payload is started any more) and flush  *)
(* keeps being called, the queue becomes empty and stays empty, whatever   *)
(* failed and whatever sweeps halted before.                               *)
(***************************************************************************)
C27_RecoveryDrains == Recovered ~> [](queue = <<>>)

\* after the recovery a flush delivered the two payloads that a failed send
\* and a halted sweep had left, and the queue is empty
C27_Witness ==
    /\ Recovered /\ AllIdle /\ has_queue
    /\ last.op = "flush" /\ last.n = 2 /\ last.k = 2
    /\ queue = <<>> /\ storage = ToJsonString(<<>>)

=============================================================================
